---- MODULE Spec2Model ----
(***************************************************************************)
(* CADSCRIBE: the versioned script processing and recovery pipeline.       *)
(*                                                                         *)
(* Three actors share one S3 bucket: the API process (S3Service and the    *)
(* routes of backend/routes/scripts.py), the background polling tasks the  *)
(* API process starts per uploaded script, and the external FreeCAD worker *)
(* (fixed_worker.py).  The model follows one project, ProjectName; every   *)
(* key of the bucket is written with it.                                   *)
(*                                                                         *)
(*   input/demo/demo_v{v}.py              s3.script[v]                     *)
(*   processed/demo/demo_v{v}.py.done     s3.marker[v]                     *)
(*   output/demo/v{v}/{filename}          s3.artifacts[v][filename]        *)
(*   output/demo/v{v}/metadata.json       s3.metadata[v]                   *)
(*   errors/demo/demo_v{v}_error.json     s3.errors[v]                     *)
(*   logs/demo/demo_autofix_v{v}_*.json   s3.fixlogs                       *)
(***************************************************************************)
EXTENDS Integers, FiniteSets, Sequences, TLC

VARIABLES s3, db, task, worker, resp, call, calls, fix

vars == <<s3, db, task, worker, resp, call, calls, fix>>

----------------------------------------------------------------------------
(* Bounds of the model *)

\* highest version number a submission may allocate
MaxVersion == 2

\* polling tasks the API process starts (uploads through the upload route)
MaxTasks == 1

\* recovery calls (mark-failed, retry, replace, auto-fix) the API serves
MaxCalls == 3

\* successive retry calls served after one mark-failed (RetrySpec)
MaxRetryCalls == 5

\* highest retry_count a caller of mark-failed passes in the request body
MaxRetryArg == 4

\* store errors injected into one polling task (FaultSpec)
MaxStoreErrors == 2

----------------------------------------------------------------------------
(* Program constants *)

\* poll_for_output_files: max_attempts = 20
MaxAttempts == 20

\* retry_failed_script: if retry_count >= 3
RetryLimit == 3

\* mark_script_failed: "max_retries": 3
MaxRetries == 3

ProjectName == "demo"

Versions == 1..MaxVersion

\* the script body a user submits, the bodies a user replaces it with, and
\* the body auto-fix generates
UserSources == {"src_a"}

NewSources == {"src_b"}

FixSource == "fix"

Sources == UserSources \cup NewSources \cup {FixSource}

\* the value of a key that holds no object
NoObject == "none"

\* fixed_worker.py names every output {project_name}{ext}
Filenames == {"demo.stl", "demo.step"}

MetadataFile == "metadata.json"

ErrorMessages == {"boom"}

Extension(f) ==
    CASE f = "demo.stl" -> ".STL"
      [] f = "demo.step" -> ".STEP"
      [] OTHER -> ".JSON"

SupportedExtensions == {".FCSTD", ".STL", ".STEP", ".IGES", ".OBJ", ".GLTF"}

----------------------------------------------------------------------------
(* Objects of the bucket *)

NoMarker == [exists |-> FALSE, worker_id |-> "", output_files_count |-> 0]

\* fixed_worker.mark_processed: an empty body, no object metadata
WorkerMarker == [exists |-> TRUE, worker_id |-> "", output_files_count |-> 0]

\* S3Service.mark_script_processed: empty body, object metadata
ApiMarker(output_files, worker_id) ==
    [exists |-> TRUE, worker_id |-> worker_id,
     output_files_count |-> Cardinality(output_files)]

NoMetadata ==
    [exists |-> FALSE, output_files |-> {}, script_hash |-> NoObject,
     worker_id |-> ""]

NoError == [exists |-> FALSE, error_message |-> "", retry_count |-> 0]

EmptyBucket ==
    [script    |-> [v \in Versions |-> NoObject],
     marker    |-> [v \in Versions |-> NoMarker],
     artifacts |-> [v \in Versions |-> [f \in Filenames |-> NoObject]],
     metadata  |-> [v \in Versions |-> NoMetadata],
     errors    |-> [v \in Versions |-> NoError],
     fixlogs   |-> {}]

Max(S) == CHOOSE x \in S : \A y \in S : y <= x

Min(S) == CHOOSE x \in S : \A y \in S : x <= y

----------------------------------------------------------------------------
(* S3Service: reads *)

\* keys of input/demo/ that match demo_v(\d+)\.py$
ScriptVersions(S) == {v \in Versions : S.script[v] # NoObject}

\* the mutant returns the lowest number no script is stored under
GetNextVersionFillGap(S) ==
    Min({v \in 1..(MaxVersion + 1) : v \notin ScriptVersions(S)})

\* the mutant returns the highest stored number again
GetNextVersionNoIncrement(S) ==
    IF ScriptVersions(S) = {} THEN 1 ELSE Max(ScriptVersions(S))

\* get_next_version with a listing that succeeds: 1 without a versioned key,
\* max(versions) + 1 otherwise
GetNextVersion(S) ==
    IF ScriptVersions(S) = {} THEN 1 ELSE Max(ScriptVersions(S)) + 1

\* list_objects_v2(Prefix = output/demo/v{v}/): the filenames under the prefix
ListOutputKeys(S, v) ==
    {f \in Filenames : S.artifacts[v][f] # NoObject}
        \cup (IF S.metadata[v].exists THEN {MetadataFile} ELSE {})

\* the mutant lists output/demo/ without the version folder
CheckOutputFilesAllVersions(S, v, storeError) ==
    IF storeError THEN {}
    ELSE {f \in UNION {ListOutputKeys(S, w) : w \in Versions} :
             f # MetadataFile /\ Extension(f) \in SupportedExtensions}

\* check_output_files: metadata.json is skipped, unsupported extensions too;
\* a store error is caught and reported as the empty list
CheckOutputFiles(S, v, storeError) ==
    IF storeError THEN {}
    ELSE {f \in ListOutputKeys(S, v) :
             f # MetadataFile /\ Extension(f) \in SupportedExtensions}

----------------------------------------------------------------------------
(* S3Service: writes, as functions of the bucket *)

PutScript(S, v, code) == [S EXCEPT !.script[v] = code]

DeleteMarker(S, v) == [S EXCEPT !.marker[v] = NoMarker]

DeleteError(S, v) == [S EXCEPT !.errors[v] = NoError]

\* the mutant also removes the processed marker of the version
PutErrorClearingMarker(S, v, msg, count) ==
    [S EXCEPT !.errors[v] =
                  [exists |-> TRUE, error_message |-> msg,
                   retry_count |-> count],
              !.marker[v] = NoMarker]

\* mark_script_failed, retry_failed_script: put_object of the error record
PutError(S, v, msg, count) ==
    [S EXCEPT !.errors[v] =
        [exists |-> TRUE, error_message |-> msg, retry_count |-> count]]

\* the mutant writes only one of the observed filenames
CreateVersionMetadataFirstOnly(S, v, output_files, worker_id) ==
    [S EXCEPT !.metadata[v] =
        [exists |-> TRUE,
         output_files |-> {CHOOSE f \in output_files : TRUE},
         script_hash |-> S.script[v],
         worker_id |-> worker_id]]

\* create_version_metadata: script_hash is taken from the script stored now
CreateVersionMetadata(S, v, output_files, worker_id) ==
    [S EXCEPT !.metadata[v] =
        [exists |-> TRUE,
         output_files |-> output_files,
         script_hash |-> S.script[v],
         worker_id |-> worker_id]]

\* the mutant writes metadata.json also for an empty output list
MarkScriptProcessedAlwaysMetadata(S, v, output_files, worker_id) ==
    [CreateVersionMetadata(S, v, output_files, worker_id)
        EXCEPT !.marker[v] = ApiMarker(output_files, worker_id)]

\* mark_script_processed: metadata.json only "if output_files", then the
\* .done marker with the object metadata
MarkScriptProcessed(S, v, output_files, worker_id) ==
    LET S1 == IF output_files # {}
              THEN CreateVersionMetadata(S, v, output_files, worker_id)
              ELSE S
    IN  [S1 EXCEPT !.marker[v] = ApiMarker(output_files, worker_id)]

\* delete_objects: the listed keys of output/demo/v{v}/ are deleted
DeleteObjects(S, v, keys) ==
    [S EXCEPT !.artifacts[v] =
                  [f \in Filenames |-> IF f \in keys THEN NoObject ELSE @[f]],
              !.metadata[v] = IF MetadataFile \in keys THEN NoMetadata ELSE @]

\* the mutant deletes only the artifacts check_output_files reports
ClearVersionOutputsArtifactsOnly(S, v) ==
    DeleteObjects(S, v, CheckOutputFiles(S, v, FALSE))

\* _clear_version_outputs: every key listed under output/demo/v{v}/ is deleted
ClearVersionOutputs(S, v) == DeleteObjects(S, v, ListOutputKeys(S, v))

\* the audit record auto-fix writes under logs/demo/
PutFixLog(S, v, msg) ==
    [S EXCEPT !.fixlogs = @ \cup {[version |-> v, action |-> "auto_fix",
                                   original_error |-> msg]}]

----------------------------------------------------------------------------
(* State of the processes *)

NoTask ==
    [pc |-> "none", attempt |-> 0, emptyPolls |-> 0, storeErrors |-> 0,
     observed |-> {}, logged |-> {}]

IdleWorker ==
    [pc |-> "idle", files |-> {}, cur |-> 0, src |-> NoObject, code |-> 0,
     out |-> {}]

\* what the call of the API that made the last step returned to its caller;
\* NoResp when the last step was not the return of a call
NoResp == [op |-> "none", version |-> 0, success |-> FALSE, error |-> ""]

\* a recovery call of the API in progress, store operation by store operation
NoCall ==
    [op |-> "none", pc |-> "idle", version |-> 0, code |-> NoObject,
     had_error |-> FALSE, listed |-> {}, msg |-> "", retry_count |-> 0]

\* _parse_log_content: error_info as initialised before the loop
NoErrorInfo ==
    [error_type |-> "unknown", error_details |-> <<>>, stack_trace |-> <<>>,
     missing_modules |-> <<>>, syntax_errors |-> <<>>,
     runtime_errors |-> <<>>]

\* the error analyzer and the fix generator at work on one failure: the log
\* being parsed, the index of the next line, error_info so far; the code
\* and error message handed to the rule-based generator and what it returns.
\* A text (a log line, a source, a message) is the sequence of its words.
NoFix ==
    [pc |-> "none", lines |-> <<>>, i |-> 1, error_info |-> NoErrorInfo,
     original_code |-> <<>>, error_message |-> <<>>,
     corrected |-> [template |-> "none", dims |-> <<>>]]

\* the project document: metadata.processing_status
NoDb == [processing_status |-> "none"]

Init ==
    /\ s3 = EmptyBucket
    /\ db = NoDb
    /\ task = [v \in Versions |-> NoTask]
    /\ worker = IdleWorker
    /\ resp = NoResp
    /\ call = NoCall
    /\ fix = NoFix
    /\ calls = MaxCalls

----------------------------------------------------------------------------
(* Submission *)

\* S3Service.upload_script, as ai_service and the monitoring route call it:
\* no polling task is started
UploadScript(code) ==
    /\ call.op \in {"none", "upload"}
    /\ GetNextVersion(s3) <= MaxVersion
    /\ s3' = PutScript(s3, GetNextVersion(s3), code)
    /\ resp' = [NoResp EXCEPT !.op = "upload", !.version = GetNextVersion(s3),
                              !.success = TRUE]
    /\ UNCHANGED <<db, task, worker, call, calls, fix>>

\* POST /{project_name}/upload-script: upload, then the background task
UploadScriptRoute(code) ==
    /\ call.op = "none"
    /\ Cardinality({v \in Versions : task[v].pc # "none"}) < MaxTasks
    /\ GetNextVersion(s3) <= MaxVersion
    /\ s3' = PutScript(s3, GetNextVersion(s3), code)
    /\ task' = [task EXCEPT ![GetNextVersion(s3)] =
                    [NoTask EXCEPT !.pc = "loop"]]
    /\ resp' = [NoResp EXCEPT !.op = "upload", !.version = GetNextVersion(s3),
                              !.success = TRUE]
    /\ UNCHANGED <<db, worker, call, calls, fix>>

\* upload_script when list_objects_v2 raises: get_next_version logs the
\* error and returns 1, and the script is put under version 1
UploadScriptListFails(code) ==
    /\ call.op \in {"none", "upload"}
    /\ s3' = PutScript(s3, 1, code)
    /\ resp' = [NoResp EXCEPT !.op = "upload", !.version = 1,
                              !.success = TRUE]
    /\ UNCHANGED <<db, task, worker, call, calls, fix>>

\* upload_script in a second server process, store operation by store
\* operation: get_next_version lists the keys and computes the version
BeginUpload(code) ==
    /\ call.op = "none"
    /\ GetNextVersion(s3) <= MaxVersion
    /\ call' = [NoCall EXCEPT !.op = "upload", !.pc = "put_upload",
                              !.version = GetNextVersion(s3), !.code = code]
    /\ resp' = NoResp
    /\ UNCHANGED <<s3, db, task, worker, calls, fix>>

\* ... and put_object writes the script under the version computed earlier
CallPutUpload ==
    /\ call.pc = "put_upload"
    /\ s3' = PutScript(s3, call.version, call.code)
    /\ resp' = [NoResp EXCEPT !.op = "upload", !.version = call.version,
                              !.success = TRUE]
    /\ call' = NoCall
    /\ UNCHANGED <<db, task, worker, calls, fix>>

\* get_next_version alone: the number it returns for the keys stored now
GetNextVersionCall ==
    /\ call.op = "none"
    /\ resp' = [NoResp EXCEPT !.op = "next_version",
                              !.version = GetNextVersion(s3),
                              !.success = TRUE]
    /\ UNCHANGED <<s3, db, task, worker, call, calls, fix>>

----------------------------------------------------------------------------
(* ProcessingMonitor: poll_for_output_files, one task per uploaded version *)

\* the mutant counts the attempt only after a check that did not fail
NextAttemptSkipErrors(attempt, storeError) ==
    IF storeError THEN attempt ELSE attempt + 1

\* "attempt += 1" runs before the check, whatever the check then does
NextAttempt(attempt, storeError) == attempt + 1

DbCompleted(v, output_files) ==
    [db EXCEPT !.processing_status = "completed"]

DbTimeout(v) ==
    [db EXCEPT !.processing_status = "timeout"]

\* one iteration of "while attempt < max_attempts": sleep, count, check, and
\* on a non-empty list mark processed, update the project and break
Poll(v, storeError) ==
    /\ call.op = "none"
    /\ task[v].pc = "loop"
    /\ task[v].attempt < MaxAttempts
    /\ LET a == NextAttempt(task[v].attempt, storeError)
           output_files == CheckOutputFiles(s3, v, storeError)
       IN  IF output_files # {}
           THEN /\ s3' = MarkScriptProcessed(s3, v, output_files,
                                             "aws-freecad-worker")
                /\ db' = DbCompleted(v, output_files)
                /\ task' = [task EXCEPT ![v].pc = "after_loop",
                                        ![v].attempt = a,
                                        ![v].observed = output_files,
                                        ![v].logged = @ \cup {"ready"}]
           ELSE /\ task' = [task EXCEPT
                                ![v].pc = IF a < MaxAttempts THEN "loop"
                                          ELSE "after_loop",
                                ![v].attempt = a,
                                ![v].emptyPolls = @ + 1,
                                ![v].storeErrors =
                                    IF storeError THEN @ + 1 ELSE @]
                /\ UNCHANGED <<s3, db>>
    /\ resp' = NoResp
    /\ UNCHANGED <<worker, call, calls, fix>>

\* a poll whose list_objects_v2 answers
PollOutput(v) == Poll(v, FALSE)

\* a poll whose list_objects_v2 raises (ClientError or any other exception)
PollStoreError(v) ==
    /\ task[v].storeErrors < MaxStoreErrors
    /\ Poll(v, TRUE)

\* after the loop: "if attempt >= max_attempts" marks the version processed
\* with worker_id "timeout" and sets the project to timeout
Finish(v) ==
    /\ call.op = "none"
    /\ task[v].pc = "after_loop"
    /\ IF task[v].attempt >= MaxAttempts
       THEN /\ s3' = MarkScriptProcessed(s3, v, {}, "timeout")
            /\ db' = DbTimeout(v)
            /\ task' = [task EXCEPT ![v].pc = "done",
                                    ![v].logged = @ \cup {"timeout"}]
       ELSE /\ task' = [task EXCEPT ![v].pc = "done"]
            /\ UNCHANGED <<s3, db>>
    /\ resp' = NoResp
    /\ UNCHANGED <<worker, call, calls, fix>>

----------------------------------------------------------------------------
(* The external worker: fixed_worker.py, main and process_project *)

\* list_objects_v2 of input/demo/: the .py keys found at this moment
WorkerListFiles ==
    /\ worker.pc = "idle"
    /\ ScriptVersions(s3) # {}
    /\ worker' = [IdleWorker EXCEPT !.pc = "scan", !.files = ScriptVersions(s3)]
    /\ resp' = NoResp
    /\ UNCHANGED <<s3, db, task, call, calls, fix>>

\* "for key in files": is_processed(project, filename), skip when marked;
\* when the list is exhausted the worker sleeps until the next scan
WorkerIsProcessed ==
    /\ worker.pc = "scan"
    /\ IF worker.files = {}
       THEN worker' = IdleWorker
       ELSE LET v == Min(worker.files)
            IN  worker' = [worker EXCEPT
                              !.files = @ \ {v},
                              !.cur = IF s3.marker[v].exists THEN 0 ELSE v,
                              !.pc = IF s3.marker[v].exists THEN "scan"
                                     ELSE "download"]
    /\ resp' = NoResp
    /\ UNCHANGED <<s3, db, task, call, calls, fix>>

\* s3.download_file reads the body stored at this moment; run_freecad_script
\* then returns a code and leaves files in the local output folder
WorkerRun(code, out) ==
    /\ worker.pc = "download"
    /\ worker' = [worker EXCEPT !.src = s3.script[worker.cur], !.code = code,
                                !.out = out, !.pc = "upload"]
    /\ resp' = NoResp
    /\ UNCHANGED <<s3, db, task, call, calls, fix>>

\* run_freecad_script raises (timeout): error log, nothing uploaded, no marker
WorkerRunRaises ==
    /\ worker.pc = "download"
    /\ worker' = [worker EXCEPT !.cur = 0, !.pc = "scan"]
    /\ resp' = NoResp
    /\ UNCHANGED <<s3, db, task, call, calls, fix>>

\* s3.upload_file of one supported output to output/demo/v{n}/demo{ext}
WorkerUploadFile(f) ==
    /\ worker.pc = "upload"
    /\ f \in worker.out
    /\ s3' = [s3 EXCEPT !.artifacts[worker.cur][f] = worker.src]
    /\ worker' = [worker EXCEPT !.out = @ \ {f}]
    /\ resp' = NoResp
    /\ UNCHANGED <<db, task, call, calls, fix>>

\* "if code == 0: mark_processed", then the next file
WorkerMarkProcessed ==
    /\ worker.pc = "upload"
    /\ worker.out = {}
    /\ s3' = IF worker.code = 0
             THEN [s3 EXCEPT !.marker[worker.cur] = WorkerMarker]
             ELSE s3
    /\ worker' = [worker EXCEPT !.cur = 0, !.src = NoObject, !.code = 0,
                                !.pc = "scan"]
    /\ resp' = NoResp
    /\ UNCHANGED <<db, task, call, calls, fix>>

WorkerStep ==
    \/ WorkerListFiles
    \/ WorkerIsProcessed
    \/ \E code \in {0, 1}, out \in SUBSET Filenames : WorkerRun(code, out)
    \/ WorkerRunRaises
    \/ \E f \in Filenames : WorkerUploadFile(f)
    \/ WorkerMarkProcessed

----------------------------------------------------------------------------
(* The monitor with a reliable store, and with a store that may fail *)

MonitorNext ==
    \/ \E code \in UserSources : UploadScript(code)
    \/ \E code \in UserSources : UploadScriptRoute(code)
    \/ \E v \in Versions : PollOutput(v)
    \/ \E v \in Versions : Finish(v)
    \/ WorkerStep

MonitorSpec == Init /\ [][MonitorNext]_vars

\* the worker's main loop never stops; nothing is assumed of its pace
MonitorLiveSpec == MonitorSpec /\ WF_vars(WorkerStep)

FaultNext ==
    \/ \E code \in UserSources : UploadScript(code)
    \/ \E code \in UserSources : UploadScriptRoute(code)
    \/ \E v \in Versions : PollOutput(v)
    \/ \E v \in Versions : PollStoreError(v)
    \/ \E v \in Versions : Finish(v)
    \/ WorkerStep

FaultSpec == Init /\ [][FaultNext]_vars

----------------------------------------------------------------------------
(* Submissions that overlap, and submissions whose listing fails *)

SubmitNext ==
    \/ \E code \in UserSources : UploadScript(code)
    \/ \E code \in UserSources : UploadScriptListFails(code)
    \/ \E code \in UserSources : BeginUpload(code)
    \/ CallPutUpload
    \/ WorkerStep

SubmitSpec == Init /\ [][SubmitNext]_vars

\* submits of one server process, one after the other, some of them with a
\* listing that raises; the bodies differ from submit to submit
ListFaultNext ==
    \/ \E code \in UserSources \cup NewSources : UploadScript(code)
    \/ \E code \in UserSources \cup NewSources : UploadScriptListFails(code)
    \/ WorkerStep

ListFaultSpec == Init /\ [][ListFaultNext]_vars

\* the version allocator on every set of versioned keys, gaps included
VersionInit ==
    /\ \E scripts \in [Versions -> UserSources \cup {NoObject}] :
           s3 = [EmptyBucket EXCEPT !.script = scripts]
    /\ db = NoDb
    /\ task = [v \in Versions |-> NoTask]
    /\ worker = IdleWorker
    /\ resp = NoResp
    /\ call = NoCall
    /\ fix = NoFix
    /\ calls = MaxCalls

VersionNext ==
    \/ GetNextVersionCall
    \/ \E code \in UserSources : UploadScript(code)
    \/ WorkerStep

VersionSpec == VersionInit /\ [][VersionNext]_vars

----------------------------------------------------------------------------
(* One polling task per version, both near the end of their budget: every  *)
(* version was uploaded through the route and polled MaxAttempts - 2 times  *)
(* before the worker started.                                               *)

LatePolling == [NoTask EXCEPT !.pc = "loop", !.attempt = MaxAttempts - 2,
                              !.emptyPolls = MaxAttempts - 2]

TwoTaskInit ==
    /\ s3 = [EmptyBucket EXCEPT !.script = [v \in Versions |-> "src_a"]]
    /\ db = NoDb
    /\ task = [v \in Versions |-> LatePolling]
    /\ worker = IdleWorker
    /\ resp = NoResp
    /\ call = NoCall
    /\ fix = NoFix
    /\ calls = MaxCalls

TwoTaskNext ==
    \/ \E v \in Versions : PollOutput(v)
    \/ \E v \in Versions : Finish(v)
    \/ WorkerStep

TwoTaskSpec == TwoTaskInit /\ [][TwoTaskNext]_vars

----------------------------------------------------------------------------
(* RecoveryCoordinator: each call of S3Service as one step *)

Response(op, v, success, error) ==
    [op |-> op, version |-> v, success |-> success, error |-> error]

\* mark_script_failed: the error record is written with the caller's count
MarkScriptFailed(v, msg, count) ==
    /\ call.op = "none"
    /\ calls > 0
    /\ s3' = PutError(s3, v, msg, count)
    /\ resp' = Response("mark_failed", v, TRUE, "")
    /\ calls' = calls - 1
    /\ UNCHANGED <<db, task, worker, call, fix>>

\* the mutant rejects only above the limit
RetryAllowedUpToLimit(S, v) ==
    S.errors[v].exists /\ S.errors[v].retry_count <= RetryLimit

\* retry_failed_script: an error record is needed, with retry_count < 3
RetryAllowed(S, v) ==
    S.errors[v].exists /\ S.errors[v].retry_count < RetryLimit

\* the mutant leaves the processed marker in place
RetryStoreKeepMarker(S, v) ==
    PutError(S, v, S.errors[v].error_message, S.errors[v].retry_count + 1)

\* the mutant rewrites the error record without counting the retry
RetryStoreSameCount(S, v) ==
    PutError(DeleteMarker(S, v), v,
             S.errors[v].error_message, S.errors[v].retry_count)

\* retry_failed_script: the marker is deleted, the error record rewritten
\* with retry_count + 1
RetryStore(S, v) ==
    PutError(DeleteMarker(S, v), v,
             S.errors[v].error_message, S.errors[v].retry_count + 1)

RetryFailedScript(v) ==
    /\ call.op = "none"
    /\ calls > 0
    /\ IF ~s3.errors[v].exists
       THEN /\ resp' = Response("retry", v, FALSE, "No error record found")
            /\ s3' = s3
       ELSE IF ~RetryAllowed(s3, v)
       THEN /\ resp' = Response("retry", v, FALSE,
                                "Maximum retry attempts reached")
            /\ s3' = s3
       ELSE /\ resp' = Response("retry", v, TRUE, "")
            /\ s3' = RetryStore(s3, v)
    /\ calls' = calls - 1
    /\ UNCHANGED <<db, task, worker, call, fix>>

\* replace_failed_script: read the error record, put the script, delete the
\* marker, delete the error record when one was read, clear the outputs
ReplaceStore(S, v, new_code) ==
    LET S1 == PutScript(S, v, new_code)
        S2 == DeleteMarker(S1, v)
        S3 == IF S.errors[v].exists THEN DeleteError(S2, v) ELSE S2
    IN  ClearVersionOutputs(S3, v)

ReplaceFailedScript(v, new_code) ==
    /\ call.op = "none"
    /\ calls > 0
    /\ s3' = ReplaceStore(s3, v, new_code)
    /\ resp' = Response("replace", v, TRUE, "")
    /\ calls' = calls - 1
    /\ UNCHANGED <<db, task, worker, call, fix>>

\* _generate_ai_fixed_script: the AI's code or the rule-based template
GenerateFixedScript(original_code) == FixSource

\* the mutant does not clear the outputs
AutoFixStoreNoClear(S, v, msg) ==
    LET S1 == PutScript(S, v, GenerateFixedScript(S.script[v]))
        S2 == DeleteMarker(S1, v)
    IN  PutFixLog(S2, v, msg)

\* auto_fix_failed_script: put the generated script, delete the marker,
\* clear the outputs, write the audit record
AutoFixStore(S, v, msg) ==
    LET S1 == PutScript(S, v, GenerateFixedScript(S.script[v]))
        S2 == DeleteMarker(S1, v)
        S3 == ClearVersionOutputs(S2, v)
    IN  PutFixLog(S3, v, msg)

AutoFixFailedScript(v, msg) ==
    /\ call.op = "none"
    /\ calls > 0
    /\ IF s3.script[v] = NoObject
       THEN /\ resp' = Response("auto_fix", v, FALSE,
                                "Failed to auto-fix script")
            /\ s3' = s3
       ELSE /\ resp' = Response("auto_fix", v, TRUE, "")
            /\ s3' = AutoFixStore(s3, v, msg)
    /\ calls' = calls - 1
    /\ UNCHANGED <<db, task, worker, call, fix>>

RecoveryStep ==
    \/ \E v \in Versions, msg \in ErrorMessages, count \in 0..MaxRetryArg :
           MarkScriptFailed(v, msg, count)
    \/ \E v \in Versions : RetryFailedScript(v)
    \/ \E v \in Versions, new_code \in NewSources :
           ReplaceFailedScript(v, new_code)
    \/ \E v \in Versions, msg \in ErrorMessages : AutoFixFailedScript(v, msg)

----------------------------------------------------------------------------
(* Recovery on a bucket that earlier submissions, worker runs and polling  *)
(* tasks have filled: version 1 of the project in each of the states they  *)
(* leave it in, the polling tasks of the API process over.                 *)

Uploaded == PutScript(EmptyBucket, 1, "src_a")

\* the worker's run failed after writing one output: no marker
FailedRun == [Uploaded EXCEPT !.artifacts[1]["demo.stl"] = "src_a"]

\* the worker's run succeeded: both outputs and the worker's marker
Processed ==
    [Uploaded EXCEPT !.artifacts[1] = [f \in Filenames |-> "src_a"],
                     !.marker[1] = WorkerMarker]

\* the polling task found the outputs of the successful run
Completed ==
    MarkScriptProcessed(Processed, 1, CheckOutputFiles(Processed, 1, FALSE),
                        "aws-freecad-worker")

\* the polling task timed out before the worker ran
TimedOut == MarkScriptProcessed(Uploaded, 1, {}, "timeout")

RecoveryInit ==
    /\ s3 \in {Uploaded, FailedRun, Processed, Completed, TimedOut}
    /\ db = NoDb
    /\ task = [v \in Versions |-> NoTask]
    /\ worker = IdleWorker
    /\ resp = NoResp
    /\ call = NoCall
    /\ fix = NoFix
    /\ calls = MaxCalls

RecoveryNext ==
    \/ WorkerStep
    \/ RecoveryStep

RecoverySpec == RecoveryInit /\ [][RecoveryNext]_vars

\* replace while the polling task of the version is still polling: the
\* task and the route share the event loop of the API process, so a poll
\* and a replace call each run to their end before the other starts; the
\* worker runs beside them
ReplaceRaceInit ==
    /\ s3 = Uploaded
    /\ db = NoDb
    /\ task = [v \in Versions |-> IF v = 1 THEN LatePolling ELSE NoTask]
    /\ worker = IdleWorker
    /\ resp = NoResp
    /\ call = NoCall
    /\ fix = NoFix
    /\ calls = MaxCalls

ReplaceRaceNext ==
    \/ \E v \in Versions : PollOutput(v)
    \/ \E v \in Versions : Finish(v)
    \/ \E v \in Versions, new_code \in NewSources :
          s3.script[v] # NoObject /\ ReplaceFailedScript(v, new_code)
    \/ WorkerStep

ReplaceRaceSpec == ReplaceRaceInit /\ [][ReplaceRaceNext]_vars

----------------------------------------------------------------------------
(* Successive retries: the bucket right after mark_script_failed(demo, v,   *)
(* msg, 0) has returned, then retry calls for the failed version only, the  *)
(* worker running in between.                                               *)

RetryInit ==
    /\ \E S \in {Uploaded, FailedRun, Processed, Completed, TimedOut},
          v \in Versions, msg \in ErrorMessages :
           /\ s3 = PutError(S, v, msg, 0)
           /\ resp = Response("mark_failed", v, TRUE, "")
    /\ db = NoDb
    /\ task = [v \in Versions |-> NoTask]
    /\ worker = IdleWorker
    /\ call = NoCall
    /\ fix = NoFix
    /\ calls = MaxRetryCalls

RetryNext ==
    \/ \E v \in Versions : s3.errors[v].exists /\ RetryFailedScript(v)
    \/ WorkerStep

RetrySpec == RetryInit /\ [][RetryNext]_vars

\* retry calls and mark-failed calls with the route's default retry_count
\* on one failed version, no replace and no auto-fix between them
RemarkNext ==
    \/ \E v \in Versions : s3.errors[v].exists /\ RetryFailedScript(v)
    \/ \E v \in Versions, msg \in ErrorMessages :
          s3.errors[v].exists /\ MarkScriptFailed(v, msg, 0)
    \/ WorkerStep

RemarkSpec == RetryInit /\ [][RemarkNext]_vars

\* the worker's main loop never stops: "while True: ... time.sleep"
RetryLiveSpec == RetrySpec /\ WF_vars(WorkerStep)

----------------------------------------------------------------------------
(* replace and auto-fix against the running worker: the store operations   *)
(* of one call are separate steps, and the worker's steps fall in between  *)

\* replace_failed_script up to its first write: the error record is read
BeginReplace(v, new_code) ==
    /\ call.op = "none"
    /\ calls > 0
    /\ call' = [NoCall EXCEPT !.op = "replace", !.pc = "put_script",
                              !.version = v, !.code = new_code,
                              !.had_error = s3.errors[v].exists]
    /\ calls' = calls - 1
    /\ resp' = NoResp
    /\ UNCHANGED <<s3, db, task, worker, fix>>

\* auto_fix_failed_script up to its first write: the script is read and the
\* fix generated; without a script the call returns False
BeginAutoFix(v, msg) ==
    /\ call.op = "none"
    /\ calls > 0
    /\ IF s3.script[v] = NoObject
       THEN /\ resp' = Response("auto_fix", v, FALSE,
                                "Failed to auto-fix script")
            /\ call' = call
       ELSE /\ resp' = NoResp
            /\ call' = [NoCall EXCEPT
                           !.op = "auto_fix", !.pc = "put_script",
                           !.version = v, !.msg = msg,
                           !.code = GenerateFixedScript(s3.script[v])]
    /\ calls' = calls - 1
    /\ UNCHANGED <<s3, db, task, worker, fix>>

CallPutScript ==
    /\ call.pc = "put_script"
    /\ s3' = PutScript(s3, call.version, call.code)
    /\ call' = [call EXCEPT !.pc = "delete_marker"]
    /\ resp' = NoResp
    /\ UNCHANGED <<db, task, worker, calls, fix>>

\* what follows the deletion of the marker in each of the three calls
AfterDeleteMarker(op) ==
    CASE op = "replace" -> "delete_error"
      [] op = "auto_fix" -> "list_outputs"
      [] OTHER -> "put_error"

CallDeleteMarker ==
    /\ call.pc = "delete_marker"
    /\ s3' = DeleteMarker(s3, call.version)
    /\ call' = [call EXCEPT !.pc = AfterDeleteMarker(call.op)]
    /\ resp' = NoResp
    /\ UNCHANGED <<db, task, worker, calls, fix>>

\* "if error_data": only replace, and only when the record was read
CallDeleteError ==
    /\ call.pc = "delete_error"
    /\ s3' = IF call.had_error THEN DeleteError(s3, call.version) ELSE s3
    /\ call' = [call EXCEPT !.pc = "list_outputs"]
    /\ resp' = NoResp
    /\ UNCHANGED <<db, task, worker, calls, fix>>

\* _clear_version_outputs: list_objects_v2 of output/demo/v{v}/
CallListOutputs ==
    /\ call.pc = "list_outputs"
    /\ call' = [call EXCEPT !.listed = ListOutputKeys(s3, call.version),
                            !.pc = "delete_objects"]
    /\ resp' = NoResp
    /\ UNCHANGED <<s3, db, task, worker, calls, fix>>

\* _clear_version_outputs: delete_objects of the listed keys; replace then
\* returns success
CallDeleteObjects ==
    /\ call.pc = "delete_objects"
    /\ s3' = DeleteObjects(s3, call.version, call.listed)
    /\ IF call.op = "replace"
       THEN /\ call' = NoCall
            /\ resp' = Response("replace", call.version, TRUE, "")
       ELSE /\ call' = [call EXCEPT !.pc = "put_fixlog"]
            /\ resp' = NoResp
    /\ UNCHANGED <<db, task, worker, calls, fix>>

\* auto-fix writes its audit record and returns True
CallPutFixLog ==
    /\ call.pc = "put_fixlog"
    /\ s3' = PutFixLog(s3, call.version, call.msg)
    /\ call' = NoCall
    /\ resp' = Response("auto_fix", call.version, TRUE, "")
    /\ UNCHANGED <<db, task, worker, calls, fix>>

\* what follows _clear_version_outputs: replace returns success, auto-fix
\* goes on to its audit record
AfterClearOutputs ==
    IF call.op = "replace"
    THEN /\ call' = NoCall
         /\ resp' = Response("replace", call.version, TRUE, "")
    ELSE /\ call' = [call EXCEPT !.pc = "put_fixlog"]
         /\ resp' = NoResp

\* retry_failed_script up to its first write: the error record is read and
\* the retry limit checked
BeginRetry(v) ==
    /\ call.op = "none"
    /\ calls > 0
    /\ IF ~s3.errors[v].exists
       THEN /\ resp' = Response("retry", v, FALSE, "No error record found")
            /\ call' = call
       ELSE IF ~RetryAllowed(s3, v)
       THEN /\ resp' = Response("retry", v, FALSE,
                                "Maximum retry attempts reached")
            /\ call' = call
       ELSE /\ resp' = NoResp
            /\ call' = [NoCall EXCEPT
                           !.op = "retry", !.pc = "delete_marker",
                           !.version = v,
                           !.msg = s3.errors[v].error_message,
                           !.retry_count = s3.errors[v].retry_count]
    /\ calls' = calls - 1
    /\ UNCHANGED <<s3, db, task, worker, fix>>

\* retry writes the record it read with retry_count + 1 and returns success
CallPutError ==
    /\ call.pc = "put_error"
    /\ s3' = PutError(s3, call.version, call.msg, call.retry_count + 1)
    /\ call' = NoCall
    /\ resp' = Response("retry", call.version, TRUE, "")
    /\ UNCHANGED <<db, task, worker, calls, fix>>

\* put_object of the script raises: the outer except returns the failure
CallPutScriptFails ==
    /\ call.pc = "put_script"
    /\ call' = NoCall
    /\ resp' = Response(call.op, call.version, FALSE, "store error")
    /\ UNCHANGED <<s3, db, task, worker, calls, fix>>

\* delete_object of the marker raises ClientError: "except ClientError: pass"
CallDeleteMarkerFails ==
    /\ call.pc = "delete_marker"
    /\ call' = [call EXCEPT !.pc = AfterDeleteMarker(call.op)]
    /\ resp' = NoResp
    /\ UNCHANGED <<s3, db, task, worker, calls, fix>>

\* delete_object of the error record raises ClientError: "pass"
CallDeleteErrorFails ==
    /\ call.pc = "delete_error"
    /\ call.had_error
    /\ call' = [call EXCEPT !.pc = "list_outputs"]
    /\ resp' = NoResp
    /\ UNCHANGED <<s3, db, task, worker, calls, fix>>

\* list_objects_v2 or delete_objects raises inside _clear_version_outputs:
\* it logs, returns False, and the caller does not look at the result
CallClearOutputsFails ==
    /\ call.pc \in {"list_outputs", "delete_objects"}
    /\ AfterClearOutputs
    /\ UNCHANGED <<s3, db, task, worker, calls, fix>>

\* put_object of the audit record raises: auto-fix returns False
CallPutFixLogFails ==
    /\ call.pc = "put_fixlog"
    /\ call' = NoCall
    /\ resp' = Response("auto_fix", call.version, FALSE,
                        "Failed to auto-fix script")
    /\ UNCHANGED <<s3, db, task, worker, calls, fix>>

\* put_object of the error record raises: retry returns the failure
CallPutErrorFails ==
    /\ call.pc = "put_error"
    /\ call' = NoCall
    /\ resp' = Response("retry", call.version, FALSE, "store error")
    /\ UNCHANGED <<s3, db, task, worker, calls, fix>>

RaceNext ==
    \/ WorkerStep
    \/ \E v \in Versions, msg \in ErrorMessages, count \in 0..MaxRetryArg :
           MarkScriptFailed(v, msg, count)
    \/ \E v \in Versions, new_code \in NewSources : BeginReplace(v, new_code)
    \/ \E v \in Versions, msg \in ErrorMessages : BeginAutoFix(v, msg)
    \/ CallPutScript
    \/ CallDeleteMarker
    \/ CallDeleteError
    \/ CallListOutputs
    \/ CallDeleteObjects
    \/ CallPutFixLog

RaceSpec == RecoveryInit /\ [][RaceNext]_vars

----------------------------------------------------------------------------
(* The recovery calls on a store whose operations may fail *)

FaultyRecoveryNext ==
    \/ \E v \in Versions, msg \in ErrorMessages, count \in 0..MaxRetryArg :
           MarkScriptFailed(v, msg, count)
    \/ \E v \in Versions, new_code \in NewSources : BeginReplace(v, new_code)
    \/ \E v \in Versions, msg \in ErrorMessages : BeginAutoFix(v, msg)
    \/ \E v \in Versions : BeginRetry(v)
    \/ CallPutScript
    \/ CallDeleteMarker
    \/ CallDeleteError
    \/ CallListOutputs
    \/ CallDeleteObjects
    \/ CallPutFixLog
    \/ CallPutError
    \/ CallPutScriptFails
    \/ CallDeleteMarkerFails
    \/ CallDeleteErrorFails
    \/ CallClearOutputsFails
    \/ CallPutFixLogFails
    \/ CallPutErrorFails

FaultyRecoverySpec == RecoveryInit /\ [][FaultyRecoveryNext]_vars

----------------------------------------------------------------------------
(* ErrorAnalyzer and the rule-based fix generator: _parse_log_content and  *)
(* _generate_freecad_replacement.  A text is the sequence of its words; a  *)
(* run of blanks at either end of a line is the word Whitespace.  Every    *)
(* marker the code searches for is free of blanks, so a marker occurs in a *)
(* text exactly when it occurs in one of its words.                        *)

\* the longest log the analyzer is given, in lines
MaxLogLines == 3

\* the stack trace takes the StackLines lines from the traceback line on
StackLines == 10

Whitespace == " "

\* str.lower, word by word
Lower(w) ==
    CASE w = "ModuleNotFoundError:" -> "modulenotfounderror:"
      [] w = "ImportError:"         -> "importerror:"
      [] w = "SyntaxError:"         -> "syntaxerror:"
      [] w = "AttributeError:"      -> "attributeerror:"
      [] w = "Error:"               -> "error:"
      [] w = "'ImportGui'"          -> "'importgui'"
      [] w = "ImportGui"            -> "importgui"
      [] w = "QtGui"                -> "qtgui"
      [] w = "FreeCAD"              -> "freecad"
      [] w = "Traceback"            -> "traceback"
      [] w = "No"                   -> "no"
      [] w = "AI"                   -> "ai"
      [] w = "cq.Workplane"         -> "cq.workplane"
      [] w = "Part.makeBox("        -> "part.makebox("
      [] OTHER                      -> w

\* the markers that are substrings of a word, compared case-sensitively
MarkersIn(w) ==
    CASE w = "modulenotfounderror:" -> {"modulenotfounderror", "error:", "error"}
      [] w = "importerror:"         -> {"importerror", "error:", "error"}
      [] w = "syntaxerror:"         -> {"syntaxerror", "error:", "error"}
      [] w = "attributeerror:"      -> {"attributeerror", "error:", "error"}
      [] w = "error:"               -> {"error:", "error"}
      [] w = "'importgui'"          -> {"importgui", "gui"}
      [] w = "importgui"            -> {"importgui", "gui"}
      [] w = "qtgui"                -> {"gui"}
      [] w = "'cadquery'"           -> {"cadquery"}
      [] w = "'cq'"                 -> {"cq"}
      [] w = "cq.workplane"         -> {"cq"}
      [] w = "cq.Workplane"         -> {"cq"}
      [] w = "freecad"              -> {"freecad"}
      [] w = "exception"            -> {"exception"}
      [] w = "traceback"            -> {"traceback"}
      [] w = ".box("                -> {".box(", "box"}
      [] w = "part.makebox("        -> {"box"}
      [] w = ".cylinder("           -> {".cylinder(", "cylinder"}
      [] w = ".sphere("             -> {".sphere(", "sphere"}
      [] OTHER                      -> {}

\* marker in text
Contains(text, marker) ==
    \E k \in 1..Len(text) : marker \in MarkersIn(text[k])

LowerText(text) == [k \in 1..Len(text) |-> Lower(text[k])]

RECURSIVE LStrip(_)
LStrip(text) ==
    IF text # <<>> /\ Head(text) = Whitespace THEN LStrip(Tail(text))
    ELSE text

RECURSIVE RStrip(_)
RStrip(text) ==
    IF text # <<>> /\ text[Len(text)] = Whitespace
    THEN RStrip(SubSeq(text, 1, Len(text) - 1))
    ELSE text

\* str.strip
Strip(text) == RStrip(LStrip(text))

\* the mutant tests the GUI markers before the import markers
LineBranchGuiFirst(line_lower) ==
    IF Contains(line_lower, "importgui") \/ Contains(line_lower, "gui")
    THEN "gui"
    ELSE IF \/ Contains(line_lower, "importerror")
            \/ Contains(line_lower, "modulenotfounderror")
    THEN "import"
    ELSE "none"

\* the if/elif chain of the loop body: the first test that holds
LineBranch(line_lower) ==
    IF \/ Contains(line_lower, "importerror")
       \/ Contains(line_lower, "modulenotfounderror")
    THEN "import"
    ELSE IF Contains(line_lower, "importgui") \/ Contains(line_lower, "gui")
    THEN "gui"
    ELSE IF Contains(line_lower, "syntaxerror") THEN "syntax"
    ELSE IF Contains(line_lower, "attributeerror") THEN "attribute"
    ELSE IF \/ Contains(line_lower, "error:")
            \/ Contains(line_lower, "exception:")
    THEN "runtime"
    ELSE IF /\ Contains(line_lower, "freecad")
            /\ \/ Contains(line_lower, "error")
               \/ Contains(line_lower, "exception")
    THEN "freecad"
    ELSE IF Contains(line_lower, "traceback") THEN "traceback"
    ELSE "none"

\* the module name an import-error line adds to missing_modules
MissingModule(line_lower) ==
    IF Contains(line_lower, "cadquery") THEN <<"cadquery">>
    ELSE IF Contains(line_lower, "cq") THEN <<"cadquery">>
    ELSE IF Contains(line_lower, "importgui") THEN <<"importgui">>
    ELSE <<>>

\* the lines j, j + 1, .. below last, up to the first blank one
RECURSIVE StackTrace(_, _, _)
StackTrace(lines, j, last) ==
    IF j > last \/ Strip(lines[j]) = <<>> THEN <<>>
    ELSE <<lines[j]>> \o StackTrace(lines, j + 1, last)

\* one iteration of the loop of _parse_log_content on line i
ParseLineInfo(error_info, lines, i) ==
    LET line       == lines[i]
        line_lower == LowerText(line)
        branch     == LineBranch(line_lower)
    IN  CASE branch = "import" ->
                [error_info EXCEPT
                    !.error_type = "import_error",
                    !.error_details = Strip(line),
                    !.missing_modules = @ \o MissingModule(line_lower)]
          [] branch = "gui" ->
                [error_info EXCEPT
                    !.error_type = "gui_error",
                    !.error_details = Strip(line),
                    !.missing_modules = Append(@, "importgui")]
          [] branch = "syntax" ->
                [error_info EXCEPT
                    !.error_type = "syntax_error",
                    !.syntax_errors = Append(@, Strip(line))]
          [] branch = "attribute" ->
                [error_info EXCEPT
                    !.error_type = "attribute_error",
                    !.runtime_errors = Append(@, Strip(line))]
          [] branch = "runtime" ->
                [error_info EXCEPT
                    !.runtime_errors = Append(@, Strip(line))]
          [] branch = "freecad" ->
                [error_info EXCEPT
                    !.error_type = "freecad_error",
                    !.runtime_errors = Append(@, Strip(line))]
          [] branch = "traceback" ->
                [error_info EXCEPT
                    !.stack_trace =
                        StackTrace(lines, i,
                                   Min({i + StackLines - 1, Len(lines)}))]
          [] OTHER -> error_info

\* the loop of _parse_log_content, one line per step; after the last line
\* error_info is returned
ParseLine ==
    /\ fix.pc = "parse"
    /\ fix' = [fix EXCEPT
                  !.error_info = ParseLineInfo(@, fix.lines, fix.i),
                  !.i = @ + 1,
                  !.pc = IF fix.i = Len(fix.lines) THEN "parsed" ELSE "parse"]
    /\ UNCHANGED <<s3, db, task, worker, resp, call, calls>>

\* re.findall(r'\b\d+\.?\d*\b', code): the words that are numeric literals
IsNumber(w) == w \in {"1", "2", "3", "5", "7", "20"}

\* float(n) as the template's f-string prints it
Float(n) ==
    CASE n = "1"  -> "1.0"
      [] n = "2"  -> "2.0"
      [] n = "3"  -> "3.0"
      [] n = "5"  -> "5.0"
      [] n = "7"  -> "7.0"
      [] n = "20" -> "20.0"

DefaultDimensions == <<"10", "10", "10">>

\* _extract_dimensions_from_code: the first three literals or the default
ExtractDimensionsFromCode(code) ==
    LET numbers == SelectSeq(code, IsNumber)
    IN  IF Len(numbers) >= 3
        THEN <<Float(numbers[1]), Float(numbers[2]), Float(numbers[3])>>
        ELSE DefaultDimensions

GenerateFreecadBox(dimensions) ==
    [template |-> "box",
     dims |-> IF Len(dimensions) >= 3 THEN SubSeq(dimensions, 1, 3)
              ELSE DefaultDimensions]

GenerateFreecadCylinder(dimensions) ==
    [template |-> "cylinder",
     dims |-> IF Len(dimensions) >= 2 THEN SubSeq(dimensions, 1, 2)
              ELSE <<"5", "10">>]

GenerateFreecadSphere(dimensions) ==
    [template |-> "sphere",
     dims |-> IF Len(dimensions) >= 1 THEN SubSeq(dimensions, 1, 1)
              ELSE <<"5">>]

\* _generate_freecad_replacement
GenerateFreecadReplacement(original_code, error_message) ==
    IF \/ Contains(LowerText(error_message), "cadquery")
       \/ Contains(LowerText(error_message), "cq")
    THEN LET dimensions == ExtractDimensionsFromCode(original_code)
         IN  IF \/ Contains(original_code, ".box(")
                \/ Contains(LowerText(original_code), "box")
             THEN GenerateFreecadBox(dimensions)
             ELSE IF \/ Contains(original_code, ".cylinder(")
                     \/ Contains(LowerText(original_code), "cylinder")
             THEN GenerateFreecadCylinder(dimensions)
             ELSE IF \/ Contains(original_code, ".sphere(")
                     \/ Contains(LowerText(original_code), "sphere")
             THEN GenerateFreecadSphere(dimensions)
             ELSE GenerateFreecadBox(DefaultDimensions)
    ELSE GenerateFreecadBox(DefaultDimensions)

\* the fallback of _generate_ai_fixed_script
GenerateFix ==
    /\ fix.pc = "generate"
    /\ fix' = [fix EXCEPT
                  !.corrected = GenerateFreecadReplacement(fix.original_code,
                                                           fix.error_message),
                  !.pc = "generated"]
    /\ UNCHANGED <<s3, db, task, worker, resp, call, calls>>

\* lines of the worker's log files
LogLines ==
    {<<"ModuleNotFoundError:", "No", "module", "named", "'ImportGui'">>,
     <<"ModuleNotFoundError:", "No", "module", "named", "'cadquery'">>,
     <<"ImportError:", "cannot", "import", "QtGui">>,
     <<"ImportGui", "not", "available">>,
     <<Whitespace, "SyntaxError:", "invalid", "syntax">>,
     <<"AttributeError:", "no", "attribute">>,
     <<"Error:", "export", "failed">>,
     <<"FreeCAD", "exception", "raised">>,
     <<"Traceback", "(most", "recent", "call", "last):">>,
     <<>>}

\* log_content.split('\n') never returns an empty list
Logs == UNION {[1..n -> LogLines] : n \in 1..MaxLogLines}

\* scripts a user submits
OriginalCodes ==
    {<<"cq.Workplane", ".cylinder(", "5", "20">>,
     <<"cq.Workplane", ".cylinder(", "5", "20", ".translate(", "3">>,
     <<"cq.Workplane", ".box(", "1", "2", "3">>,
     <<"cq.Workplane", ".sphere(", "7">>,
     <<"Part.makeBox(", "1", "2", "3", ".cylinder(", "5", "20">>,
     <<"print">>}

\* error_message of the auto-fix request; "AI fix failed" when there is none
FixErrorMessages ==
    {<<"No", "module", "named", "'cadquery'">>,
     <<"name", "'cq'", "is", "not", "defined">>,
     <<"boom">>,
     <<"AI", "fix", "failed">>}

FixInit ==
    /\ s3 = EmptyBucket
    /\ db = NoDb
    /\ task = [v \in Versions |-> NoTask]
    /\ worker = IdleWorker
    /\ resp = NoResp
    /\ call = NoCall
    /\ calls = MaxCalls
    /\ \/ \E lines \in Logs :
             fix = [NoFix EXCEPT !.pc = "parse", !.lines = lines]
       \/ \E code \in OriginalCodes, msg \in FixErrorMessages :
             fix = [NoFix EXCEPT !.pc = "generate", !.original_code = code,
                                 !.error_message = msg]

FixNext == ParseLine \/ GenerateFix

FixSpec == FixInit /\ [][FixNext]_vars

----------------------------------------------------------------------------
(* Properties of the polling task *)

\* 1 when the task has logged "Output files ready", 0 otherwise
Found(v) == IF "ready" \in task[v].logged THEN 1 ELSE 0

\* the step in which the task of v finds artifacts and finalizes COMPLETED
CompletedStep(v) ==
    /\ task[v].pc = "loop"
    /\ "ready" \notin task[v].logged
    /\ "ready" \in task'[v].logged

\* the step in which the task of v performs the TIMED_OUT actions
TimedOutStep(v) ==
    /\ task[v].pc = "after_loop"
    /\ "timeout" \in task'[v].logged

\* C1: every poll either finds artifacts and finalizes COMPLETED or is an
\* empty poll, and a task finalizes TIMED_OUT only after exactly 20 polls
\* that each found no artifact.
C1_TimeoutOnlyAfterTwentyEmptyPolls ==
    \A v \in Versions :
        /\ task[v].attempt = task[v].emptyPolls + Found(v)
        /\ "timeout" \in task[v].logged =>
               /\ task[v].attempt = MaxAttempts
               /\ task[v].emptyPolls = MaxAttempts

\* C2: a polling task performs one terminal transition only: a task that
\* found artifacts on any poll, the 20th included, never performs the
\* TIMED_OUT actions (marker with worker_id "timeout", status "timeout").
C2_OneTerminalTransition ==
    \A v \in Versions :
        "ready" \in task[v].logged =>
            /\ "timeout" \notin task[v].logged
            /\ task[v].pc = "done" =>
                   ~(s3.marker[v].exists /\ s3.marker[v].worker_id = "timeout")

\* C3 as stated: a poll whose store check failed does not consume an
\* attempt, so a task that never finds artifacts times out only after 20
\* genuinely empty polls.
C3_StoreErrorsNotCounted ==
    \A v \in Versions :
        /\ task[v].attempt =
               (task[v].emptyPolls - task[v].storeErrors) + Found(v)
        /\ ("timeout" \in task[v].logged /\ "ready" \notin task[v].logged) =>
               task[v].emptyPolls - task[v].storeErrors = MaxAttempts

\* C3 as amended: every poll consumes an attempt, a poll whose store check
\* failed included; a task that never finds artifacts times out after 20
\* polls in all, its store errors among them.
C3_StoreErrorsCounted ==
    \A v \in Versions :
        /\ task[v].attempt = task[v].emptyPolls + Found(v)
        /\ task[v].storeErrors <= task[v].emptyPolls
        /\ ("timeout" \in task[v].logged /\ "ready" \notin task[v].logged) =>
               task[v].emptyPolls = MaxAttempts

C3_Witness ==
    \E v \in Versions :
        /\ "timeout" \in task[v].logged
        /\ "ready" \notin task[v].logged
        /\ task[v].storeErrors > 0
        /\ task[v].emptyPolls - task[v].storeErrors < MaxAttempts

\* C4 as stated: the TIMED_OUT step writes metadata.json of the version
\* with an empty output list and worker_id "timeout", and sets the
\* bookkeeping status to "timeout".
C4_TimeoutWritesMetadata ==
    [][\A v \in Versions :
          TimedOutStep(v) =>
              /\ s3'.metadata[v].exists
              /\ s3'.metadata[v].output_files = {}
              /\ s3'.metadata[v].worker_id = "timeout"
              /\ db'.processing_status = "timeout"]_vars

\* C4 as amended: the TIMED_OUT step writes no metadata.json; it writes the
\* processed marker of the version with worker_id "timeout" and an output
\* count of 0, and sets the bookkeeping status to "timeout".
C4_TimeoutWritesMarker ==
    [][\A v \in Versions :
          TimedOutStep(v) =>
              /\ s3'.metadata[v] = s3.metadata[v]
              /\ s3'.marker[v] =
                     [exists |-> TRUE, worker_id |-> "timeout",
                      output_files_count |-> 0]
              /\ db'.processing_status = "timeout"]_vars

C4_Witness ==
    \E v \in Versions :
        /\ task[v].pc = "done"
        /\ task[v].logged = {"timeout"}
        /\ ~s3.metadata[v].exists
        /\ s3.marker[v].exists
        /\ s3.marker[v].worker_id = "timeout"
        /\ db.processing_status = "timeout"

\* C5: the poll that finds artifacts writes metadata.json of the version
\* whose output_files are exactly the filenames of the artifacts stored
\* under output/demo/v{v}/ at that poll, metadata.json not among them, and
\* the bookkeeping status becomes "completed".
C5_MetadataListsObservedArtifacts ==
    [][\A v \in Versions :
          CompletedStep(v) =>
              /\ s3'.metadata[v].exists
              /\ s3'.metadata[v].output_files =
                     {f \in Filenames : s3.artifacts[v][f] # NoObject}
              /\ s3'.metadata[v].output_files # {}
              /\ MetadataFile \notin s3'.metadata[v].output_files
              /\ db'.processing_status = "completed"]_vars

C5_Witness ==
    \E v \in Versions :
        /\ "ready" \in task[v].logged
        /\ task[v].observed = Filenames
        /\ s3.metadata[v].exists
        /\ s3.metadata[v].output_files = Filenames
        /\ db.processing_status = "completed"

\* C22: a step of the polling task of v leaves the marker, the metadata,
\* the artifacts and the task of every other version as they are, and the
\* task of v finalizes COMPLETED only on artifacts stored under
\* output/demo/v{v}/.
C22_TasksDoNotInterfere ==
    [][\A v \in Versions :
          task'[v] # task[v] =>
              /\ \A w \in Versions \ {v} :
                     /\ task'[w] = task[w]
                     /\ s3'.marker[w] = s3.marker[w]
                     /\ s3'.metadata[w] = s3.metadata[w]
                     /\ s3'.artifacts[w] = s3.artifacts[w]
              /\ CompletedStep(v) =>
                     /\ task'[v].observed # {}
                     /\ \A f \in task'[v].observed :
                            s3.artifacts[v][f] # NoObject]_vars

\* both tasks are over: the task of version 1 found artifacts, the task of
\* version 2 timed out, and each wrote the objects of its own version
C22_Witness ==
    /\ task[1].pc = "done" /\ "ready" \in task[1].logged
    /\ task[2].pc = "done" /\ task[2].logged = {"timeout"}
    /\ s3.marker[1].worker_id = "aws-freecad-worker"
    /\ s3.metadata[1].exists
    /\ s3.marker[2].worker_id = "timeout"
    /\ ~s3.metadata[2].exists

----------------------------------------------------------------------------
(* Properties of the error analyzer and the fix generator *)

Parsed == fix.pc = "parsed"

Elements(seq) == {seq[k] : k \in 1..Len(seq)}

\* an import-error or module-not-found line that names a GUI-toolkit module
GuiImportLine(line) ==
    /\ \/ Contains(LowerText(line), "importerror")
       \/ Contains(LowerText(line), "modulenotfounderror")
    /\ Contains(LowerText(line), "gui")

\* no marker of a branch that assigns error_type occurs in the line
NoTypeMarker(line) ==
    \A marker \in {"importerror", "modulenotfounderror", "gui", "syntaxerror",
                   "attributeerror", "freecad"} :
        ~Contains(LowerText(line), marker)

\* line k is the last line of the log that can assign error_type
LastTypeLine(k) ==
    \A j \in (k + 1)..Len(fix.lines) : NoTypeMarker(fix.lines[j])

\* C23 as stated: a log whose import-error line names a GUI-toolkit module
\* is classified gui_error and the module is in missing_modules.
C23_GuiModuleClassifiedGuiError ==
    Parsed =>
        \A k \in 1..Len(fix.lines) :
            GuiImportLine(fix.lines[k]) /\ LastTypeLine(k) =>
                /\ fix.error_info.error_type = "gui_error"
                /\ "importgui" \in Elements(fix.error_info.missing_modules)

\* C23 as the analyzer works: an import-error line is classified
\* import_error whatever module it names (the type stands when no later
\* line assigns one), and missing_modules receives "importgui" when the
\* line names ImportGui.
C23_GuiModuleClassifiedImportError ==
    Parsed =>
        \A k \in 1..Len(fix.lines) :
            GuiImportLine(fix.lines[k]) =>
                /\ LastTypeLine(k) =>
                      /\ fix.error_info.error_type = "import_error"
                      /\ fix.error_info.error_details = Strip(fix.lines[k])
                /\ Contains(LowerText(fix.lines[k]), "importgui") =>
                      "importgui" \in Elements(fix.error_info.missing_modules)

C23_Witness ==
    /\ Parsed
    /\ Len(fix.lines) = 2
    /\ Contains(LowerText(fix.lines[1]), "traceback")
    /\ GuiImportLine(fix.lines[2])
    /\ fix.error_info.error_type = "import_error"
    /\ fix.error_info.missing_modules = <<"importgui">>

\* C24: once a line has set error_type or error_details, no later line of
\* the log changes it.
C24_ScalarsKeepFirstMatch ==
    [][fix.pc = "parse" =>
          /\ fix.error_info.error_type # "unknown" =>
                fix'.error_info.error_type = fix.error_info.error_type
          /\ fix.error_info.error_details # <<>> =>
                fix'.error_info.error_details = fix.error_info.error_details
      ]_vars

\* the source calls the cylinder constructor with the literals (5, 20)
CylinderCall(code) ==
    \E k \in 1..(Len(code) - 2) :
        code[k] = ".cylinder(" /\ code[k + 1] = "5" /\ code[k + 2] = "20"

\* C25: for a source with the call cylinder(5, 20) the fallback returns the
\* cylinder template with radius 5 and height 20, whatever the message.
C25_CylinderTemplateKeepsLiterals ==
    fix.pc = "generated" /\ CylinderCall(fix.original_code) =>
        /\ fix.corrected.template = "cylinder"
        /\ fix.corrected.dims \in {<<"5", "20">>, <<Float("5"), Float("20")>>}

----------------------------------------------------------------------------
(* Properties of the submission *)

\* a step in which a submission returns successfully
SubmitReturns == resp'.op = "upload" /\ resp'.success

\* C13: no successful submit returns a version number that is already in
\* use: the version it returns is above every version stored before it.
C13_VersionsNeverReused ==
    [][SubmitReturns =>
          \A w \in ScriptVersions(s3) : w < resp'.version]_vars

\* C26: a successful submit leaves the script of every version stored
\* before it as it was, also when the listing of its version allocation
\* raised and the write went through.
C26_SubmitKeepsStoredScripts ==
    [][SubmitReturns =>
          \A w \in ScriptVersions(s3) : s3'.script[w] = s3.script[w]]_vars

----------------------------------------------------------------------------
(* Properties of the recovery calls *)

\* no object is stored under output/demo/v{v}/
OutputsGone(S, v) ==
    /\ \A f \in Filenames : S.artifacts[v][f] = NoObject
    /\ ~S.metadata[v].exists

C10_ExhaustedRetryRejected ==
    [][\A v \in Versions :
          (/\ RetryFailedScript(v)
           /\ s3.errors[v].exists
           /\ s3.errors[v].retry_count >= MaxRetries) =>
              /\ ~resp'.success
              /\ resp'.error = "Maximum retry attempts reached"
              /\ s3' = s3
              /\ db' = db]_vars

C10_Witness ==
    /\ resp.op = "retry"
    /\ ~resp.success
    /\ resp.error = "Maximum retry attempts reached"
    /\ s3.errors[resp.version].exists
    /\ s3.errors[resp.version].retry_count >= MaxRetries
    /\ s3.marker[resp.version].exists

----------------------------------------------------------------------------
(* Properties of the retry budget *)

\* retry calls served since mark_script_failed returned (RetrySpec)
RetriesServed == MaxRetryCalls - calls

C27_SpentBudgetNotRestored ==
    [][\A v \in Versions :
          s3.errors[v].exists /\ s3'.errors[v].exists =>
              s3'.errors[v].retry_count >= s3.errors[v].retry_count]_vars

\* C12: every stored error record has retry_count <= max_retries (3),
\* whatever arguments mark-failed, retry, replace and auto-fix are called
\* with.
C12_RetryCountWithinMax ==
    \A v \in Versions :
        s3.errors[v].exists => s3.errors[v].retry_count <= MaxRetries

\* C16: mark_failed(job, v, msg, count) changes the error record of v
\* only: scripts, markers, output artifacts, metadata and the other error
\* records are as before, and a second call with the same arguments would
\* store the same record again.
C16_MarkFailedWritesErrorRecordOnly ==
    [][\A v \in Versions :
          (resp'.op = "mark_failed" /\ resp'.version = v /\ calls' # calls) =>
              /\ resp'.success
              /\ s3'.errors[v].exists
              /\ s3' = [s3 EXCEPT !.errors[v] = s3'.errors[v]]
              /\ PutError(s3', v, s3'.errors[v].error_message,
                          s3'.errors[v].retry_count) = s3']_vars

\* mark-failed has returned for a version that has a script, a processed
\* marker, artifacts and metadata
C16_Witness ==
    /\ resp = Response("mark_failed", 1, TRUE, "")
    /\ s3.errors[1].retry_count = 2
    /\ s3.script[1] # NoObject
    /\ s3.marker[1].exists
    /\ s3.metadata[1].exists
    /\ s3.artifacts[1]["demo.stl"] # NoObject

----------------------------------------------------------------------------
(* Properties of the processed marker *)

\* the step in which the worker leaves the version it has attempted: the
\* run returned and the uploads are over, or the run raised
WorkerFinishes(v) ==
    /\ worker.cur = v
    /\ worker.pc \in {"download", "upload"}
    /\ worker'.pc = "scan"

\* C17: the processed marker of a version is created by the worker alone,
\* in the step that ends its attempt of that version; no step of the API
\* process (submission, polling task, recovery call) creates it.
C17_MarkerCreatedByWorkerOnly ==
    [][\A v \in Versions :
          (~s3.marker[v].exists /\ s3'.marker[v].exists) =>
              WorkerFinishes(v)]_vars

\* C18: when the worker has finished attempting a version, whether the run
\* succeeded or failed, the processed marker of that version exists.
C18_MarkerAfterEveryAttempt ==
    [][\A v \in Versions :
          WorkerFinishes(v) => s3'.marker[v].exists]_vars

\* C30: a retry, replace or auto-fix call leaves the set of versions of
\* the project and the next version number as they were, and on a version
\* without a script it fails and leaves the bucket unchanged.
C30_RecoveryKeepsVersionSet ==
    [][resp'.op \in {"retry", "replace", "auto_fix"} =>
          /\ ScriptVersions(s3') = ScriptVersions(s3)
          /\ GetNextVersion(s3') = GetNextVersion(s3)
          /\ s3.script[resp'.version] = NoObject =>
                 ~resp'.success /\ s3' = s3]_vars

\* C19: a successful replace, auto-fix or retry of a version starts a
\* polling task for that version.
C19_RecoveryStartsMonitor ==
    [][\A v \in Versions :
          (/\ resp'.op \in {"replace", "auto_fix", "retry"}
           /\ resp'.version = v
           /\ resp'.success
           /\ calls' # calls) => task'[v].pc = "loop"]_vars

\* C20: a retry, replace or auto-fix in which a store operation failed
\* reports a failure: none of them returns success while the marker it was
\* to delete, or (replace, auto-fix) an output it was to clear, is present.
C20_NoSuccessWithMarkerOrOutputsLeft ==
    [][\A v \in Versions :
          (/\ resp'.op \in {"replace", "auto_fix", "retry"}
           /\ resp'.version = v
           /\ resp'.success
           /\ call.op = resp'.op) =>
              /\ ~s3'.marker[v].exists
              /\ resp'.op # "retry" => OutputsGone(s3', v)]_vars

----------------------------------------------------------------------------
(* Properties of the worker picking a version up *)

\* the worker has found v unmarked and is about to download and run it
WorkerAttempts(v) == worker.pc = "download" /\ worker.cur = v

C28_SubmittedVersionIsExecuted ==
    \A v \in Versions :
        (resp.op = "upload" /\ resp.success /\ resp.version = v)
            ~> WorkerAttempts(v)

----------------------------------------------------------------------------
(* Properties of replace and auto-fix against the running worker *)

\* the worker downloads the script of worker.cur and runs it
WorkerStartsRun == worker.pc = "download" /\ worker'.pc = "upload"

\* an output of version v that a run of another script body left
StaleOutput(S, v) ==
    \E f \in Filenames : S.artifacts[v][f] \notin {NoObject, S.script[v]}

\* the step of a call in progress deletes an output or the marker of a run
\* of the script that very call has put
TailDeletesNewRun ==
    /\ call.pc = "delete_objects"
    /\ s3.script[call.version] = call.code
    /\ \E f \in call.listed \cap Filenames :
           /\ s3.artifacts[call.version][f] = call.code
           /\ s3'.artifacts[call.version][f] = NoObject

\* C29: with a replace during the polling, the task of v finalizes
\* COMPLETED only on outputs of a run of the script stored for v at that
\* moment, never on outputs of the script that was replaced.
C29_NoCompletionOnStaleOutputs ==
    [][\A v \in Versions :
          CompletedStep(v) =>
              \A f \in task'[v].observed :
                  s3.artifacts[v][f] = s3.script[v]]_vars

\* C9: in every interleaving of replace or auto-fix with the worker, the
\* outputs of the pre-replacement run are cleared before the worker picks
\* the replaced script up, and what the worker writes for the new script
\* is not deleted by the rest of the same call.
C9_ClearedBeforeWorkerSeesScript ==
    [][/\ (WorkerStartsRun /\ s3.script[worker.cur] \in NewSources \cup {FixSource})
           => ~StaleOutput(s3, worker.cur)
       /\ ~TailDeletesNewRun]_vars

====
